---- MODULE Spec2Model ----
(***************************************************************************)
(* The chunk store and the merge engine of uploads-api                     *)
(* (handler/api_handler.go): UploadFile persists one chunk under           *)
(* ./temp/<file>.part<index>, MergeChunks concatenates the chunks of one   *)
(* file into ./uploads/<file> with one goroutine per chunk and then sweeps *)
(* ./temp/*.part*.                                                         *)
(*                                                                         *)
(* The file system is modelled with POSIX semantics: a directory maps      *)
(* names to files, an open handle keeps its file alive after the name is   *)
(* removed, os.Create truncates an existing file, and every handle has its *)
(* own write offset.                                                       *)
(***************************************************************************)
EXTENDS Integers, Sequences, FiniteSets, TLC

\* Largest total_chunks of a merge request; chunk indices range over 0..MaxChunks-1.
MaxChunks == 3
\* Longest chunk payload, in bytes.
MaxLen == 2
\* Bytes moved by one write to a file (the copy buffer of UploadFile, scaled down).
BufLen == 1

Files == {"a", "b"}
Uploaders == {"u1", "u2"}
Mergers == {"m1", "m2"}
Calls == Uploaders \cup Mergers
ChunkIdx == 0..MaxChunks - 1
Paths == Files \X ChunkIdx
None == "none"

Min(a, b) == IF a < b THEN a ELSE b
Max(a, b) == IF a > b THEN a ELSE b

\* The payload of call u with n bytes: every byte names its call and its position,
\* so the origin and the order of every byte of a file can be read off the file.
Tag(u) == IF u = "u1" THEN 10 ELSE 20
Payload(u, n) == [k \in 1..n |-> Tag(u) + k]
Payloads(u) == {Payload(u, n) : n \in 0..MaxLen}

VARIABLES
    uploadsDir,  \* ./uploads exists
    tempDir,     \* ./temp exists
    tempFiles,   \* ./temp: path <<file, index>> -> the file (inode) linked there
    ino,         \* the bytes of each chunk file; a file is named by the call that created it
    uploads,     \* ./uploads: file name -> bytes of the output artifact
    upc,         \* UploadFile: position of each call
    uFile, uIdx, uData,  \* UploadFile: file.Filename, body.ChunkIndex, the uploaded bytes
    uH, uOff,    \* UploadFile: outputFile (the file it is open on) and its offset
    mpc,         \* MergeChunks: position of each call
    mFile, mN,   \* MergeChunks: body.FileName, body.TotalChunks
    mI,          \* MergeChunks: the loop variable i of the spawning loop
    mOff,        \* MergeChunks: offset of the handle outputFile
    wg,          \* MergeChunks: the WaitGroup counter
    mutx,        \* MergeChunks: the mutex, None or the chunk index of its holder
    files,       \* cleanUpTempFiles: the paths of the glob not yet removed
    tpc,         \* goroutine of chunk i of merge m: position
    tH,          \* goroutine: chunkFile (the file it is open on)
    tData,       \* goroutine: chunkData
    tW,          \* goroutine: bytes of chunkData written so far
    before,      \* history: the calls that had returned when a call started
    listed       \* history: the paths ./temp held when the sweep of a merge listed it

fsVars == <<uploadsDir, tempDir, tempFiles, ino, uploads>>
upVars == <<upc, uFile, uIdx, uData, uH, uOff>>
mgVars == <<mpc, mFile, mN, mI, mOff, wg, mutx, files>>
tkVars == <<tpc, tH, tData, tW>>
vars == <<fsVars, upVars, mgVars, tkVars, before, listed>>

\* The positions of a call that has answered: 200, 400, or 500 with its message.
UploadAnswers == {"ok", "badRequest", "createFailed", "openFailed", "copyFailed"}
MergeAnswers == {"ok", "badRequest", "createFailed", "sweepFailed"}
Returned(c) == IF c \in Uploaders THEN upc[c] \in UploadAnswers ELSE mpc[c] \in MergeAnswers

(***************************************************************************)
(* File-system primitives.                                                 *)
(***************************************************************************)
\* write(2) at an offset: bytes replace what is there, a gap reads as zeros.
WriteAt(content, off, bytes) ==
    [k \in 1..Max(Len(content), off + Len(bytes)) |->
        IF k > off /\ k <= off + Len(bytes) THEN bytes[k - off]
        ELSE IF k <= Len(content) THEN content[k] ELSE 0]

\* The next block of data a writer at offset off hands to one write.
Block(data, off) == SubSeq(data, off + 1, Min(off + BufLen, Len(data)))

\* An open without O_TRUNC.
Kept(content) == content

\* What os.Create leaves in a file that already exists: O_TRUNC empties it.
Truncated(content) == << >>

\* A directory after name is removed from it.
Unlink(dir, name) == [p \in DOMAIN dir \ {name} |-> dir[p]]

\* A directory after name is linked to x.
Link(dir, name, x) == [p \in DOMAIN dir \cup {name} |-> IF p = name THEN x ELSE dir[p]]

\* os.MkdirAll: the directory exists afterwards unless the call failed (the handler
\* drops the error).
MkdirAll(exists) == IF exists THEN {TRUE} ELSE {TRUE, FALSE}

(***************************************************************************)
(* UploadFile                                                              *)
(***************************************************************************)
\* A path that leaves the chunk index out.
ChunkPathNoIndex(f, i) == <<f, 0>>

\* Line 63: ./temp/<file>.part<index>.  The index is printed in decimal after the
\* last ".part" of the name, so two requests get the same path only when they
\* give the same file name and the same index: the path is modelled as the pair.
ChunkPath(f, i) == <<f, i>>

\* Lines 27-42: both directories are created when missing.
UploadEnsureDirs(u) ==
    /\ upc[u] = "idle"
    /\ uploadsDir' \in MkdirAll(uploadsDir)
    /\ tempDir' \in MkdirAll(tempDir)
    /\ upc' = [upc EXCEPT ![u] = "parse"]
    /\ before' = [before EXCEPT ![u] = {c \in Calls : Returned(c)}]
    /\ UNCHANGED <<tempFiles, ino, uploads, uFile, uIdx, uData, uH, uOff, mgVars, tkVars, listed>>

\* Lines 44-60: BodyParser or FormFile fails: 400.
UploadParseFail(u) ==
    /\ upc[u] = "parse"
    /\ upc' = [upc EXCEPT ![u] = "badRequest"]
    /\ UNCHANGED <<fsVars, uFile, uIdx, uData, uH, uOff, mgVars, tkVars, before, listed>>

\* Lines 44-63: the request gives the chunk index, the file name and the bytes.
UploadParse(u) ==
    /\ upc[u] = "parse"
    /\ \E f \in Files, i \in ChunkIdx, d \in Payloads(u) :
        /\ uFile' = [uFile EXCEPT ![u] = f]
        /\ uIdx' = [uIdx EXCEPT ![u] = i]
        /\ uData' = [uData EXCEPT ![u] = d]
    /\ upc' = [upc EXCEPT ![u] = "create"]
    /\ UNCHANGED <<fsVars, uH, uOff, mgVars, tkVars, before, listed>>

\* Lines 63-72: os.Create(tempFile) fails (500) ...
UploadCreateFail(u) ==
    /\ upc[u] = "create"
    /\ upc' = [upc EXCEPT ![u] = "createFailed"]
    /\ UNCHANGED <<fsVars, uFile, uIdx, uData, uH, uOff, mgVars, tkVars, before, listed>>

\* ... or opens the chunk artifact, emptied when it exists and new otherwise.
UploadCreate(u) ==
    /\ upc[u] = "create"
    /\ tempDir
    /\ LET p == ChunkPath(uFile[u], uIdx[u]) IN
        IF p \in DOMAIN tempFiles
        THEN /\ ino' = [ino EXCEPT ![tempFiles[p]] = Truncated(@)]
             /\ uH' = [uH EXCEPT ![u] = tempFiles[p]]
             /\ UNCHANGED tempFiles
        ELSE /\ tempFiles' = Link(tempFiles, p, u)
             /\ ino' = [ino EXCEPT ![u] = << >>]
             /\ uH' = [uH EXCEPT ![u] = u]
    /\ uOff' = [uOff EXCEPT ![u] = 0]
    /\ upc' = [upc EXCEPT ![u] = "open"]
    /\ UNCHANGED <<uploadsDir, tempDir, uploads, uFile, uIdx, uData, mgVars, tkVars, before, listed>>

\* Lines 76-84: file.Open(), 500 on failure; deferred Close of outputFile.
UploadOpen(u) ==
    /\ upc[u] = "open"
    /\ \E ok \in BOOLEAN :
        /\ upc' = [upc EXCEPT ![u] = IF ok THEN "copy" ELSE "openFailed"]
        /\ uH' = [uH EXCEPT ![u] = IF ok THEN @ ELSE None]
    /\ UNCHANGED <<fsVars, uFile, uIdx, uData, uOff, mgVars, tkVars, before, listed>>

\* Lines 86-88: io.CopyBuffer moves one buffer from the upload to outputFile.
UploadCopy(u) ==
    /\ upc[u] = "copy"
    /\ uOff[u] < Len(uData[u])
    /\ LET b == Block(uData[u], uOff[u]) IN
        /\ ino' = [ino EXCEPT ![uH[u]] = WriteAt(@, uOff[u], b)]
        /\ uOff' = [uOff EXCEPT ![u] = @ + Len(b)]
    /\ UNCHANGED <<uploadsDir, tempDir, tempFiles, uploads, upc, uFile, uIdx, uData, uH,
                   mgVars, tkVars, before, listed>>

\* Lines 89-95: the copy fails (source stream error, disk full): 500.
UploadCopyFail(u) ==
    /\ upc[u] = "copy"
    /\ upc' = [upc EXCEPT ![u] = "copyFailed"]
    /\ uH' = [uH EXCEPT ![u] = None]
    /\ UNCHANGED <<fsVars, uFile, uIdx, uData, uOff, mgVars, tkVars, before, listed>>

\* A copy loop that stops one buffer early.
CopyDoneEarly(u) == uOff[u] + BufLen >= Len(uData[u])

\* io.CopyBuffer returns nil: the upload is read to its end.
CopyDone(u) == uOff[u] = Len(uData[u])

\* Lines 97-101: the copy reached the end of the upload: 200.
UploadRespond(u) ==
    /\ upc[u] = "copy"
    /\ CopyDone(u)
    /\ upc' = [upc EXCEPT ![u] = "ok"]
    /\ uH' = [uH EXCEPT ![u] = None]
    /\ UNCHANGED <<fsVars, uFile, uIdx, uData, uOff, mgVars, tkVars, before, listed>>

UploadFile(u) ==
    \/ UploadEnsureDirs(u)
    \/ UploadParseFail(u)
    \/ UploadParse(u)
    \/ UploadCreateFail(u)
    \/ UploadCreate(u)
    \/ UploadOpen(u)
    \/ UploadCopy(u)
    \/ UploadCopyFail(u)
    \/ UploadRespond(u)

(***************************************************************************)
(* MergeChunks                                                             *)
(***************************************************************************)
Tasks == 0..MaxChunks - 1
TaskDone == {"missing", "openFail", "readFail", "writeFail", "merged"}

\* Lines 105-112: BodyParser fails: 400.
MergeParseFail(m) ==
    /\ mpc[m] = "idle"
    /\ mpc' = [mpc EXCEPT ![m] = "badRequest"]
    /\ before' = [before EXCEPT ![m] = {c \in Calls : Returned(c)}]
    /\ UNCHANGED <<fsVars, upVars, mFile, mN, mI, mOff, wg, mutx, files, tkVars, listed>>

\* Lines 105-114: the request gives file_name and total_chunks.
MergeParse(m) ==
    /\ mpc[m] = "idle"
    /\ \E f \in Files, n \in 0..MaxChunks :
        /\ mFile' = [mFile EXCEPT ![m] = f]
        /\ mN' = [mN EXCEPT ![m] = n]
    /\ mpc' = [mpc EXCEPT ![m] = "create"]
    /\ before' = [before EXCEPT ![m] = {c \in Calls : Returned(c)}]
    /\ UNCHANGED <<fsVars, upVars, mI, mOff, wg, mutx, files, tkVars, listed>>

\* A merge that goes on to the sweep when os.Create failed.
CreateErrorDropped == "sweep"

\* What MergeChunks does when os.Create(outPath) returns an error: it answers 500.
CreateFailure == "createFailed"

\* Lines 116-123: os.Create(outPath) fails: 500, nothing else is done.
MergeCreateFail(m) ==
    /\ mpc[m] = "create"
    /\ mpc' = [mpc EXCEPT ![m] = CreateFailure]
    /\ UNCHANGED <<fsVars, upVars, mFile, mN, mI, mOff, wg, mutx, files, tkVars, before, listed>>

\* Lines 116-127: os.Create(outPath) opens the output artifact, emptied when it
\* exists; the handle starts at offset 0, the mutex free, the WaitGroup at 0.
MergeCreate(m) ==
    /\ mpc[m] = "create"
    /\ uploadsDir
    /\ uploads' = Link(uploads, mFile[m],
                       IF mFile[m] \in DOMAIN uploads THEN Truncated(uploads[mFile[m]])
                       ELSE << >>)
    /\ mOff' = [mOff EXCEPT ![m] = 0]
    /\ mI' = [mI EXCEPT ![m] = 0]
    /\ mpc' = [mpc EXCEPT ![m] = "spawn"]
    /\ UNCHANGED <<uploadsDir, tempDir, tempFiles, ino, upVars, mFile, mN, wg, mutx, files,
                   tkVars, before, listed>>

\* Lines 128-137: one iteration of the loop: wg.Add(1) and go func(i).
MergeSpawn(m) ==
    /\ mpc[m] = "spawn"
    /\ mI[m] < mN[m]
    /\ wg' = [wg EXCEPT ![m] = @ + 1]
    /\ tpc' = [tpc EXCEPT ![m][mI[m]] = "open"]
    /\ mI' = [mI EXCEPT ![m] = @ + 1]
    /\ UNCHANGED <<fsVars, upVars, mpc, mFile, mN, mOff, mutx, files, tH, tData, tW, before, listed>>

\* A merge that does not wait for its goroutines.
WaitSkipped(m) == TRUE

\* wg.Wait() returns when the counter is zero.
WaitReturns(m) == wg[m] = 0

\* Line 173: the loop is over and wg.Wait() has returned.
MergeWait(m) ==
    /\ mpc[m] = "spawn"
    /\ mI[m] = mN[m]
    /\ WaitReturns(m)
    /\ mpc' = [mpc EXCEPT ![m] = "sweep"]
    /\ UNCHANGED <<fsVars, upVars, mFile, mN, mI, mOff, wg, mutx, files, tkVars, before, listed>>

\* A goroutine that returns without releasing the mutex.
TaskReturnLocked(m, i, how) ==
    /\ tpc' = [tpc EXCEPT ![m][i] = how]
    /\ tH' = [tH EXCEPT ![m][i] = None]
    /\ wg' = [wg EXCEPT ![m] = @ - 1]
    /\ UNCHANGED mutx

\* The goroutine returns: the deferred wg.Done(), chunkFile.Close() and, when it
\* holds the mutex, mutx.Unlock().
TaskReturn(m, i, how) ==
    /\ tpc' = [tpc EXCEPT ![m][i] = how]
    /\ tH' = [tH EXCEPT ![m][i] = None]
    /\ wg' = [wg EXCEPT ![m] = @ - 1]
    /\ mutx' = [mutx EXCEPT ![m] = IF @ = i THEN -1 ELSE @]

\* Lines 141-146: os.Open(chunkPath): the chunk does not exist; logged, skipped.
TaskOpenMissing(m, i) ==
    /\ tpc[m][i] = "open"
    /\ ChunkPath(mFile[m], i) \notin DOMAIN tempFiles
    /\ TaskReturn(m, i, "missing")
    /\ UNCHANGED <<fsVars, upVars, mpc, mFile, mN, mI, mOff, files, tData, tW, before, listed>>

\* Lines 141-150: os.Open(chunkPath) fails otherwise; logged, skipped.
TaskOpenFail(m, i) ==
    /\ tpc[m][i] = "open"
    /\ TaskReturn(m, i, "openFail")
    /\ UNCHANGED <<fsVars, upVars, mpc, mFile, mN, mI, mOff, files, tData, tW, before, listed>>

\* Lines 141-151: os.Open(chunkPath) opens the chunk artifact.
TaskOpen(m, i) ==
    /\ tpc[m][i] = "open"
    /\ ChunkPath(mFile[m], i) \in DOMAIN tempFiles
    /\ tH' = [tH EXCEPT ![m][i] = tempFiles[ChunkPath(mFile[m], i)]]
    /\ tpc' = [tpc EXCEPT ![m][i] = "read"]
    /\ UNCHANGED <<fsVars, upVars, mgVars, tData, tW, before, listed>>

\* Lines 153-157: io.ReadAll(chunkFile) fails; logged, skipped.
TaskReadFail(m, i) ==
    /\ tpc[m][i] = "read"
    /\ TaskReturn(m, i, "readFail")
    /\ UNCHANGED <<fsVars, upVars, mpc, mFile, mN, mI, mOff, files, tData, tW, before, listed>>

\* Line 153: io.ReadAll(chunkFile) reads what the file holds now.
TaskRead(m, i) ==
    /\ tpc[m][i] = "read"
    /\ tData' = [tData EXCEPT ![m][i] = ino[tH[m][i]]]
    /\ tpc' = [tpc EXCEPT ![m][i] = "lock"]
    /\ UNCHANGED <<fsVars, upVars, mgVars, tH, tW, before, listed>>

\* A mutex that never blocks.
CanLockAlways(m) == TRUE

\* mutx.Lock() can be taken.
CanLock(m) == mutx[m] = -1

\* Line 160: mutx.Lock().
TaskLock(m, i) ==
    /\ tpc[m][i] = "lock"
    /\ CanLock(m)
    /\ mutx' = [mutx EXCEPT ![m] = i]
    /\ tW' = [tW EXCEPT ![m][i] = 0]
    /\ tpc' = [tpc EXCEPT ![m][i] = "write"]
    /\ UNCHANGED <<fsVars, upVars, mpc, mFile, mN, mI, mOff, wg, files, tH, tData, before, listed>>

\* Line 163: outputFile.Write(chunkData) moves one block to the output artifact,
\* at the offset of the handle all goroutines of this merge share.
TaskWrite(m, i) ==
    /\ tpc[m][i] = "write"
    /\ tW[m][i] < Len(tData[m][i])
    /\ LET b == Block(tData[m][i], tW[m][i]) IN
        /\ uploads' = [uploads EXCEPT ![mFile[m]] = WriteAt(@, mOff[m], b)]
        /\ mOff' = [mOff EXCEPT ![m] = @ + Len(b)]
        /\ tW' = [tW EXCEPT ![m][i] = @ + Len(b)]
    /\ UNCHANGED <<uploadsDir, tempDir, tempFiles, ino, upVars, mpc, mFile, mN, mI, wg, mutx,
                   files, tpc, tH, tData, before, listed>>

\* Lines 164-167: outputFile.Write fails; logged, the chunk artifact is kept.
TaskWriteFail(m, i) ==
    /\ tpc[m][i] = "write"
    /\ TaskReturn(m, i, "writeFail")
    /\ UNCHANGED <<fsVars, upVars, mpc, mFile, mN, mI, mOff, files, tData, tW, before, listed>>

\* A write that is taken as complete after any number of bytes.
WriteDoneAnyway(m, i) == TRUE

\* Lines 163-164: outputFile.Write returned nil: all of chunkData is written.
WriteDone(m, i) == tW[m][i] = Len(tData[m][i])

\* Line 170: the write is complete; os.Remove(chunkPath), its error dropped.
TaskRemove(m, i) ==
    /\ tpc[m][i] = "write"
    /\ WriteDone(m, i)
    /\ \E ok \in BOOLEAN :
        tempFiles' = IF ok /\ ChunkPath(mFile[m], i) \in DOMAIN tempFiles
                     THEN Unlink(tempFiles, ChunkPath(mFile[m], i))
                     ELSE tempFiles
    /\ TaskReturn(m, i, "merged")
    /\ UNCHANGED <<uploadsDir, tempDir, ino, uploads, upVars, mpc, mFile, mN, mI, mOff, files,
                   tData, tW, before, listed>>

\* Lines 137-171: the goroutine of chunk i.
Task(m, i) ==
    \/ TaskOpenMissing(m, i)
    \/ TaskOpenFail(m, i)
    \/ TaskOpen(m, i)
    \/ TaskReadFail(m, i)
    \/ TaskRead(m, i)
    \/ TaskLock(m, i)
    \/ TaskWrite(m, i)
    \/ TaskWriteFail(m, i)
    \/ TaskRemove(m, i)

\* filepath.Glob returns the names sorted: by file name, then by index.
FileRank(f) == IF f = "a" THEN 0 ELSE 1
PathRank(p) == FileRank(p[1]) * MaxChunks + p[2]
FirstPath(S) == CHOOSE p \in S : \A q \in S : PathRank(p) <= PathRank(q)

\* A pattern that matches the artifacts of chunk 0 only.
MatchesFirstOnly(p) == p[2] = 0

\* The pattern *.part* matches the name of every chunk artifact.
Matches(p) == TRUE

\* A listing that leaves out the artifacts of uploads that have not answered.
GlobClosed == {p \in DOMAIN tempFiles : upc[tempFiles[p]] = "ok"}

\* filepath.Glob("./temp/*.part*"): every chunk artifact of ./temp.
Glob == {p \in DOMAIN tempFiles : Matches(p)}

\* Lines 190-197: without ./temp there is nothing to clean; else the glob is taken.
SweepList(m) ==
    /\ mpc[m] = "sweep"
    /\ files' = [files EXCEPT ![m] = IF tempDir THEN Glob ELSE {}]
    /\ listed' = [listed EXCEPT ![m] = DOMAIN tempFiles]
    /\ mpc' = [mpc EXCEPT ![m] = "clean"]
    /\ UNCHANGED <<fsVars, upVars, mFile, mN, mI, mOff, wg, mutx, tkVars, before>>

\* Lines 199-203: os.Remove(file) removes the next file of the glob.
SweepRemove(m) ==
    /\ mpc[m] = "clean"
    /\ files[m] # {}
    /\ FirstPath(files[m]) \in DOMAIN tempFiles
    /\ tempFiles' = Unlink(tempFiles, FirstPath(files[m]))
    /\ files' = [files EXCEPT ![m] = @ \ {FirstPath(@)}]
    /\ UNCHANGED <<uploadsDir, tempDir, ino, uploads, upVars, mpc, mFile, mN, mI, mOff, wg,
                   mutx, tkVars, before, listed>>

\* A merge that drops the error of cleanUpTempFiles.
SweepErrorDropped == "ok"

\* What MergeChunks answers when cleanUpTempFiles returns an error.
SweepFailure == "sweepFailed"

\* Lines 175-181, 200-202: os.Remove(file) fails (the file is gone, or any other
\* error): cleanUpTempFiles returns the error and the merge answers 500.
SweepRemoveFail(m) ==
    /\ mpc[m] = "clean"
    /\ files[m] # {}
    /\ mpc' = [mpc EXCEPT ![m] = SweepFailure]
    /\ UNCHANGED <<fsVars, upVars, mFile, mN, mI, mOff, wg, mutx, files, tkVars, before, listed>>

\* Lines 183-186, 205: every file of the glob is removed: 200.
MergeRespond(m) ==
    /\ mpc[m] = "clean"
    /\ files[m] = {}
    /\ mpc' = [mpc EXCEPT ![m] = "ok"]
    /\ UNCHANGED <<fsVars, upVars, mFile, mN, mI, mOff, wg, mutx, files, tkVars, before, listed>>

MergeChunks(m) ==
    \/ MergeParseFail(m)
    \/ MergeParse(m)
    \/ MergeCreateFail(m)
    \/ MergeCreate(m)
    \/ MergeSpawn(m)
    \/ \E i \in Tasks : Task(m, i)
    \/ MergeWait(m)
    \/ SweepList(m)
    \/ SweepRemove(m)
    \/ SweepRemoveFail(m)
    \/ MergeRespond(m)

(***************************************************************************)
(* Initial states.                                                         *)
(***************************************************************************)
IdleUploaders ==
    /\ upc = [u \in Uploaders |-> "idle"]
    /\ uFile = [u \in Uploaders |-> "a"]
    /\ uIdx = [u \in Uploaders |-> 0]
    /\ uData = [u \in Uploaders |-> << >>]
    /\ uH = [u \in Uploaders |-> None]
    /\ uOff = [u \in Uploaders |-> 0]

IdleMergers ==
    /\ mpc = [m \in Mergers |-> "idle"]
    /\ mFile = [m \in Mergers |-> "a"]
    /\ mN = [m \in Mergers |-> 0]
    /\ mI = [m \in Mergers |-> 0]
    /\ mOff = [m \in Mergers |-> 0]
    /\ wg = [m \in Mergers |-> 0]
    /\ mutx = [m \in Mergers |-> -1]
    /\ files = [m \in Mergers |-> {}]
    /\ tpc = [m \in Mergers |-> [i \in Tasks |-> "none"]]
    /\ tH = [m \in Mergers |-> [i \in Tasks |-> None]]
    /\ tData = [m \in Mergers |-> [i \in Tasks |-> << >>]]
    /\ tW = [m \in Mergers |-> [i \in Tasks |-> 0]]

NoFile == [p \in {} |-> None]

\* A fresh deployment: no directory, no file, no call.
Init ==
    /\ uploadsDir = FALSE
    /\ tempDir = FALSE
    /\ tempFiles = NoFile
    /\ ino = [u \in Uploaders |-> << >>]
    /\ uploads = NoFile
    /\ IdleUploaders
    /\ IdleMergers
    /\ before = [c \in Calls |-> {}]
    /\ listed = [m \in Mergers |-> {}]

\* A byte no upload of the model sends: what an earlier run left in ./uploads.
OldByte == 9

\* The store after uploads that have all returned: both directories exist, each
\* uploader either never ran or stored its chunk, no two at the same path; the
\* output directory is empty or holds the outputs of earlier merges.
InitStored ==
    /\ uploadsDir = TRUE
    /\ tempDir = TRUE
    /\ \E S \in SUBSET Uploaders :
        \E fs \in [S -> Files], is \in [S -> ChunkIdx], ns \in [S -> 0..MaxLen] :
            /\ \A u, v \in S : u # v => ChunkPath(fs[u], is[u]) # ChunkPath(fs[v], is[v])
            /\ upc = [u \in Uploaders |-> IF u \in S THEN "ok" ELSE "idle"]
            /\ uFile = [u \in Uploaders |-> IF u \in S THEN fs[u] ELSE "a"]
            /\ uIdx = [u \in Uploaders |-> IF u \in S THEN is[u] ELSE 0]
            /\ uData = [u \in Uploaders |-> IF u \in S THEN Payload(u, ns[u]) ELSE << >>]
            /\ uOff = [u \in Uploaders |-> IF u \in S THEN ns[u] ELSE 0]
            /\ ino = [u \in Uploaders |-> IF u \in S THEN Payload(u, ns[u]) ELSE << >>]
            /\ tempFiles = [p \in {ChunkPath(fs[u], is[u]) : u \in S} |->
                               CHOOSE u \in S : ChunkPath(fs[u], is[u]) = p]
    /\ uH = [u \in Uploaders |-> None]
    /\ uploads \in {NoFile, [f \in Files |-> <<OldByte>>]}
    /\ IdleMergers
    /\ before = [c \in Calls |-> {}]
    /\ listed = [m \in Mergers |-> {}]

\* Uploads alone.
NextStore == \E u \in Uploaders : UploadFile(u)

SpecStore == Init /\ [][NextStore]_vars

\* One merge alone, over a store whose uploads have all returned.
NextMerge == MergeChunks("m1")

SpecMerge == InitStored /\ [][NextMerge]_vars

\* The same under the Go scheduler, which lets the handler or one of its
\* goroutines step as long as one can.
SpecMergeFair == SpecMerge /\ WF_vars(NextMerge)

\* One upload and one merge side by side, from a fresh deployment.
NextRace == UploadFile("u1") \/ MergeChunks("m1")

SpecRace == Init /\ [][NextRace]_vars

\* Two merges side by side, over a store that holds at most one chunk (of file
\* "a": the two file names are interchangeable).
InitTwo ==
    /\ InitStored
    /\ upc["u2"] = "idle"
    /\ uFile["u1"] = "a"
    /\ DOMAIN uploads = {}

NextTwo == \E m \in Mergers : MergeChunks(m)

SpecTwo == InitTwo /\ [][NextTwo]_vars

(***************************************************************************)
(* Vocabulary of the properties.                                           *)
(***************************************************************************)
\* The uploads of chunk i of merge m's file that had succeeded when m started.
StoredBy(m, i) ==
    {u \in Uploaders \cap before[m] : upc[u] = "ok" /\ uFile[u] = mFile[m] /\ uIdx[u] = i}

\* The chunk indices of merge m's request that were stored when m started.
Present(m) == {i \in 0..mN[m] - 1 : StoredBy(m, i) # {}}

\* The bytes uploaded for chunk i (empty when it was never uploaded).
Uploaded(m, i) == IF StoredBy(m, i) = {} THEN << >> ELSE uData[CHOOSE u \in StoredBy(m, i) : TRUE]

\* The uploaded chunks 0..n-1 concatenated in ascending index order.
RECURSIVE InIndexOrder(_, _)
InIndexOrder(m, n) == IF n = 0 THEN << >> ELSE InIndexOrder(m, n - 1) \o Uploaded(m, n - 1)

\* The orders in which the members of S can follow each other.
Orders(S) == {s \in [1..Cardinality(S) -> S] : \A a, b \in 1..Cardinality(S) : a # b => s[a] # s[b]}

\* blocks[s[1]] \o ... \o blocks[s[Len(s)]]
RECURSIVE Joined(_, _, _)
Joined(blocks, s, n) == IF n = 0 THEN << >> ELSE Joined(blocks, s, n - 1) \o blocks[s[n]]

\* The part of its chunk that the goroutine of chunk i has written.
WrittenBy(m) == [i \in Tasks |-> SubSeq(tData[m][i], 1, tW[m][i])]

\* The goroutines that have taken the mutex.
Writers(m) == {i \in Tasks : tpc[m][i] \in {"write", "writeFail", "merged"}}

\* Merge m has created its output and not yet answered.
Merging(m) == mpc[m] \in {"spawn", "sweep", "clean"}

\* Merge m has created its output artifact.
HasOutput(m) == mpc[m] \in {"spawn", "sweep", "clean", "ok", "sweepFailed"}

\* Merge m answered 200 and none of its goroutines met an I/O failure.
CleanMerge(m) ==
    /\ mpc[m] = "ok"
    /\ \A i \in 0..mN[m] - 1 : tpc[m][i] = IF i \in Present(m) THEN "merged" ELSE "missing"

\* The output artifact of merge m.
Output(m) == uploads[mFile[m]]

(***************************************************************************)
(* C1: when chunks 0..N-1 were all uploaded before the merge and nothing    *)
(* fails, the output artifact is the chunks concatenated in ascending       *)
(* index order, whatever the schedule of the goroutines.                    *)
(***************************************************************************)
C1_IndexOrder ==
    \A m \in Mergers :
        (CleanMerge(m) /\ mN[m] >= 1 /\ Present(m) = 0..mN[m] - 1)
            => Output(m) = InIndexOrder(m, mN[m])

(***************************************************************************)
(* C2: at most one goroutine of a merge is in its write step; the output    *)
(* artifact is at every moment the written parts of the goroutines that     *)
(* took the mutex, each one contiguous block, each once (a goroutine that   *)
(* returned without failure wrote its whole chunk); and after a merge       *)
(* without I/O failure it is the present chunks' payloads, each once, so    *)
(* its length is the sum of their lengths.                                  *)
(***************************************************************************)
C2_OneWriter ==
    \A m \in Mergers :
        /\ Cardinality({i \in Tasks : tpc[m][i] = "write"}) <= 1
        /\ \A i \in Tasks : tpc[m][i] = "merged" => tW[m][i] = Len(tData[m][i])
        /\ HasOutput(m)
            => \E s \in Orders(Writers(m)) :
                   Output(m) = Joined(WrittenBy(m), s, Cardinality(Writers(m)))
        /\ CleanMerge(m)
            => \E s \in Orders(Present(m)) :
                   Output(m) = Joined([i \in Present(m) |-> Uploaded(m, i)], s,
                                      Cardinality(Present(m)))

\* Two chunks of full length were both merged.
C2_Witness ==
    /\ CleanMerge("m1")
    /\ {0, 1} \subseteq Present("m1")
    /\ Len(Uploaded("m1", 0)) = MaxLen
    /\ Len(Uploaded("m1", 1)) = MaxLen

(***************************************************************************)
(* C3: with any subset of the chunks 0..N-1 never uploaded, a merge that    *)
(* meets no I/O failure leaves the present chunks concatenated in ascending *)
(* index order (nothing for a missing chunk; zero bytes when none is        *)
(* present).                                                               *)
(***************************************************************************)
C3_MissingTolerated ==
    \A m \in Mergers :
        (CleanMerge(m) /\ Present(m) # 0..mN[m] - 1)
            => Output(m) = InIndexOrder(m, mN[m])

(***************************************************************************)
(* C4 as stated: at the step in which a merge answers 200, ./temp holds no  *)
(* chunk artifact.                                                         *)
(***************************************************************************)
C4_NothingLeft ==
    [][\A m \in Mergers : (mpc[m] # "ok" /\ mpc'[m] = "ok") => DOMAIN tempFiles' = {}]_vars

(***************************************************************************)
(* C4 amended: once a merge has answered 200, ./temp holds no chunk file    *)
(* that was stored by an upload that had returned before the merge started, *)
(* whatever its file name and index.  (A file is named by the upload that   *)
(* created it, so tempFiles[p] \in before[m] says just that.)               *)
(***************************************************************************)
C4_StoredAreSwept ==
    \A m \in Mergers :
        mpc[m] = "ok" => \A p \in DOMAIN tempFiles : tempFiles[p] \notin before[m]

\* A merge answered 200 after a chunk of another file, with an index no goroutine
\* of the merge looks at, had been stored.
C4_Witness ==
    /\ mpc["m1"] = "ok"
    /\ "u1" \in before["m1"]
    /\ upc["u1"] = "ok"
    /\ uFile["u1"] # mFile["m1"]
    /\ uIdx["u1"] >= mN["m1"]
    /\ mN["m1"] >= 1

\* The chunk artifact of upload u exists and holds exactly the uploaded bytes.
ArtifactHolds(u) ==
    /\ ChunkPath(uFile[u], uIdx[u]) \in DOMAIN tempFiles
    /\ ino[tempFiles[ChunkPath(uFile[u], uIdx[u])]] = uData[u]

\* Upload u answers 200 in this step.
Succeeds(u) == upc[u] # "ok" /\ upc'[u] = "ok"

\* No other upload to the path of u ran while u did: each one had returned
\* before u started, or has not got to os.Create, or has another path.
NoRivalUpload(u) ==
    \A v \in Uploaders \ {u} :
        \/ v \in before[u]
        \/ upc[v] \in {"idle", "parse", "create", "badRequest", "createFailed"}
        \/ ChunkPath(uFile[v], uIdx[v]) # ChunkPath(uFile[u], uIdx[u])

\* No merge ran while u did.
NoMergeDuring(u) == \A m \in Mergers : m \in before[u] \/ mpc[m] = "idle"

\* The file upload u created is still the one its path names: nothing removed it.
StillLinked(u) ==
    /\ ChunkPath(uFile[u], uIdx[u]) \in DOMAIN tempFiles
    /\ tempFiles[ChunkPath(uFile[u], uIdx[u])] = uH[u]

(***************************************************************************)
(* C5 as stated: at the step in which an upload answers 200, its chunk      *)
(* artifact exists and holds exactly the uploaded bytes, in every           *)
(* execution.                                                              *)
(***************************************************************************)
C5_RoundTripAlways ==
    [][\A u \in Uploaders : Succeeds(u) => ArtifactHolds(u)']_vars

(***************************************************************************)
(* C5 amended: at the step in which an upload answers 200, and no other     *)
(* upload to the same path ran meanwhile: the artifact exists and holds     *)
(* exactly the uploaded bytes if no merge ran meanwhile, and also if a      *)
(* merge did run but the file the upload created was not removed from its   *)
(* path.                                                                   *)
(***************************************************************************)
C5_RoundTrip ==
    [][\A u \in Uploaders :
        (Succeeds(u) /\ NoRivalUpload(u) /\ (NoMergeDuring(u) \/ StillLinked(u)))
            => ArtifactHolds(u)']_vars

\* An upload of full length answered 200 with its artifact in place while a merge
\* that started before was between its goroutines and its answer.
C5_Witness ==
    /\ upc["u1"] = "ok"
    /\ Len(uData["u1"]) = MaxLen
    /\ ArtifactHolds("u1")
    /\ "u1" \notin before["m1"]
    /\ mpc["m1"] \in {"spawn", "sweep", "clean"}

\* Merge m is past wg.Wait().
PastJoin(m) == mpc[m] \in {"sweep", "clean", "ok", "sweepFailed"}

\* Every goroutine of merge m has returned (and it spawned one per chunk).
AllReturned(m) ==
    \A i \in Tasks : tpc[m][i] \in (IF i < mN[m] THEN TaskDone ELSE {"none"})

(***************************************************************************)
(* C6: the sweep starts and the answer is given only when all N goroutines  *)
(* have returned (merged, skipped as missing, or failed); from then on no   *)
(* goroutine moves, the output artifact does not change, and chunk          *)
(* artifacts are removed by the sweep only, never after the answer.         *)
(***************************************************************************)
C6_JoinBarrier ==
    /\ [](\A m \in Mergers : PastJoin(m) => (AllReturned(m) /\ wg[m] = 0 /\ mI[m] = mN[m]))
    /\ [][\A m \in Mergers :
            /\ PastJoin(m) => UNCHANGED <<tpc, tW, tData, uploads>>
            /\ (PastJoin(m) /\ tempFiles' # tempFiles)
                   => (mpc[m] = "clean" /\ files'[m] # files[m])
         ]_vars

\* A merge of MaxChunks chunks answered 200 after one goroutine merged its chunk,
\* one found it missing and one failed.
C6_Witness ==
    /\ mpc["m1"] = "ok"
    /\ mN["m1"] = MaxChunks
    /\ \E i, j, k \in Tasks :
        /\ tpc["m1"][i] = "merged" /\ Len(tData["m1"][i]) = MaxLen
        /\ tpc["m1"][j] = "missing"
        /\ tpc["m1"][k] = "readFail"

\* The moves of a merge: CREATING_OUTPUT is "create", MERGING is "spawn", SWEEPING
\* is "sweep" and "clean", DONE is "ok", FAILED is "createFailed" or "sweepFailed".
MergeMoves ==
    {<<"idle", "create">>, <<"idle", "badRequest">>,
     <<"create", "spawn">>, <<"create", "createFailed">>,
     <<"spawn", "sweep">>,
     <<"sweep", "clean">>,
     <<"clean", "ok">>, <<"clean", "sweepFailed">>}

(***************************************************************************)
(* C7: a merge moves only along CREATING_OUTPUT -> MERGING -> SWEEPING ->   *)
(* DONE, with FAILED reached from CREATING_OUTPUT and SWEEPING only; while  *)
(* MERGING it can always take a step, whatever goroutines have failed: the  *)
(* mutex is never left held by a goroutine that returned, so a failure      *)
(* keeps no other goroutine from completing, the only way out of MERGING    *)
(* is SWEEPING, and under fair scheduling every merge that is MERGING gets  *)
(* to SWEEPING.                                                            *)
(***************************************************************************)
C7_MergingNeverFails ==
    /\ [][\A m \in Mergers : mpc'[m] # mpc[m] => <<mpc[m], mpc'[m]>> \in MergeMoves]_vars
    /\ [](\A m \in Mergers :
            /\ mutx[m] # -1 => tpc[m][mutx[m]] = "write"
            /\ mpc[m] = "spawn" => ENABLED MergeChunks(m))
    /\ \A m \in Mergers : (mpc[m] = "spawn") ~> (mpc[m] = "sweep")

\* A merge answered 200 although one goroutine failed in the middle of its write;
\* another merged its whole chunk after it, a third found no chunk.
C7_Witness ==
    /\ mpc["m1"] = "ok"
    /\ \E i, j, k \in Tasks :
        /\ tpc["m1"][i] = "writeFail" /\ tW["m1"][i] = 1
        /\ tpc["m1"][j] = "merged" /\ Len(tData["m1"][j]) = MaxLen
        /\ tpc["m1"][k] = "missing"

(***************************************************************************)
(* C8: a step of the sweep with files left either removes the first of them *)
(* and goes on, or fails: then the merge answers 500 "Failed to clean up    *)
(* temporary files", removes nothing more (the failing file and all later   *)
(* ones stay) and never answers 200; a merge answers 200 only when every    *)
(* file of the glob has been removed.                                      *)
(***************************************************************************)
C8_SweepFailureIsFatal ==
    /\ [][\A m \in Mergers :
            /\ (mpc[m] = "clean" /\ files[m] # {} /\ mpc'[m] # mpc[m])
                   => (mpc'[m] = "sweepFailed" /\ UNCHANGED <<tempFiles, files>>)
            /\ (mpc[m] = "clean" /\ files'[m] # files[m])
                   => (/\ mpc'[m] = "clean"
                       /\ files'[m] = files[m] \ {FirstPath(files[m])}
                       /\ tempFiles' = Unlink(tempFiles, FirstPath(files[m])))
            /\ mpc[m] = "sweepFailed" => UNCHANGED <<mpc, tempFiles, files>>
         ]_vars
    /\ [](\A m \in Mergers :
            /\ mpc[m] = "ok" => (files[m] = {} /\ DOMAIN tempFiles = {})
            /\ mpc[m] = "sweepFailed" => (files[m] # {} /\ files[m] \subseteq DOMAIN tempFiles))

\* The sweep failed on the first of two files: both are still there.
C8_Witness ==
    /\ mpc["m1"] = "sweepFailed"
    /\ Cardinality(files["m1"]) = 2
    /\ Cardinality(DOMAIN tempFiles) = 2

(***************************************************************************)
(* C9: while a merge is between creating its output and its answer, the     *)
(* output artifact changes only by a write of one of its own goroutines.    *)
(***************************************************************************)
C9_OutputOwned ==
    [][\A m \in Mergers :
        (Merging(m) /\ uploads'[mFile[m]] # uploads[mFile[m]]) => mOff'[m] # mOff[m]]_vars

(***************************************************************************)
(* C10: when an upload answers 200 and an upload to the same path had       *)
(* answered 200 before it started, the chunk artifact holds exactly the     *)
(* bytes of the later upload (nothing of a longer earlier payload); the     *)
(* later upload gets the same answers as any other, none for a duplicate.   *)
(***************************************************************************)
C10_LastWriteWins ==
    [][\A u \in Uploaders :
        (/\ Succeeds(u)
         /\ NoRivalUpload(u)
         /\ \E v \in before[u] \cap Uploaders :
                upc[v] = "ok" /\ ChunkPath(uFile[v], uIdx[v]) = ChunkPath(uFile[u], uIdx[u]))
            => ArtifactHolds(u)']_vars

\* Both uploads answered 200, the second to the path of the first with a shorter
\* payload, which is what the artifact holds.
C10_Witness ==
    /\ upc["u1"] = "ok"
    /\ upc["u2"] = "ok"
    /\ "u1" \in before["u2"]
    /\ ChunkPath(uFile["u1"], uIdx["u1"]) = ChunkPath(uFile["u2"], uIdx["u2"])
    /\ Len(uData["u1"]) = MaxLen
    /\ Len(uData["u2"]) = 1
    /\ ArtifactHolds("u2")

\* What ./temp holds at path p: whether a file is there, and its bytes.
Content(p) == IF p \in DOMAIN tempFiles THEN <<TRUE, ino[tempFiles[p]]>> ELSE <<FALSE, << >> >>

\* Upload u has read its request.
Parsed(u) == upc[u] \notin {"idle", "parse", "badRequest"}

\* Upload u takes a step on the file system: os.Create or one write of the copy.
Touches(u) == upc[u] \in {"create", "copy"} /\ (upc'[u] # upc[u] \/ uOff'[u] # uOff[u])

(***************************************************************************)
(* C11: with uploads alone, under every interleaving: an upload that has    *)
(* answered 200 and whose (file name, chunk index) differs from that of     *)
(* every other upload has its artifact, holding exactly its bytes; and what *)
(* ./temp holds at a path changes only in a step of an upload whose own     *)
(* path it is.                                                             *)
(***************************************************************************)
C11_DistinctPathsNoConflict ==
    /\ [](\A u \in Uploaders :
            (/\ upc[u] = "ok"
             /\ \A v \in Uploaders \ {u} :
                    Parsed(v) => <<uFile[v], uIdx[v]>> # <<uFile[u], uIdx[u]>>)
                => ArtifactHolds(u))
    /\ [][\A p \in Paths :
            Content(p)' # Content(p)
                => \E u \in Uploaders : ChunkPath(uFile[u], uIdx[u]) = p /\ Touches(u)]_vars

\* Two uploads that overlapped, of two chunks of one file, both of full length,
\* have both answered 200 and both artifacts are in place.
C11_Witness ==
    /\ upc["u1"] = "ok" /\ upc["u2"] = "ok"
    /\ "u1" \notin before["u2"] /\ "u2" \notin before["u1"]
    /\ uFile["u1"] = uFile["u2"] /\ uIdx["u1"] # uIdx["u2"]
    /\ Len(uData["u1"]) = MaxLen /\ Len(uData["u2"]) = MaxLen
    /\ ArtifactHolds("u1") /\ ArtifactHolds("u2")

\* The bytes an upload u can send.
Bytes(u) == {Tag(u) + k : k \in 1..MaxLen}

\* Upload u has created its artifact.
Created(u) == upc[u] \in {"open", "copy", "ok", "openFailed", "copyFailed"}

\* Upload u stored chunk i of the file of merge m after the goroutine of chunk i
\* had found it absent (before that the goroutine would have opened it).
Orphan(m, u) ==
    /\ Created(u)
    /\ uFile[u] = mFile[m]
    /\ uIdx[u] < mN[m]
    /\ tpc[m][uIdx[u]] = "missing"

\* No byte of an orphan is in the output of the merge that missed it, and no
\* goroutine of that merge removes it: only a sweep does.
OrphanNotConsumed ==
    /\ [](\A m \in Mergers, u \in Uploaders :
            (Orphan(m, u) /\ HasOutput(m))
                => \A k \in DOMAIN Output(m) : Output(m)[k] \notin Bytes(u))
    /\ [][\A m \in Mergers, u \in Uploaders :
            (/\ Orphan(m, u)
             /\ ChunkPath(uFile[u], uIdx[u]) \in DOMAIN tempFiles
             /\ ChunkPath(uFile[u], uIdx[u]) \notin DOMAIN tempFiles')
                => \E n \in Mergers : mpc[n] = "clean" /\ files'[n] # files[n]]_vars

C13_FailuresReported ==
    /\ [](\A u \in Uploaders : upc[u] = "ok" => (tempDir /\ uploadsDir))
    /\ [][\A u \in Uploaders :
            /\ (upc[u] = "create" /\ upc'[u] # upc[u]) => upc'[u] \in {"open", "createFailed"}
            /\ (upc[u] = "copy" /\ upc'[u] # upc[u]) => upc'[u] \in {"ok", "copyFailed"}
            /\ (upc[u] = "copy" /\ upc'[u] = "ok") => uOff[u] = Len(uData[u])
            /\ upc[u] \in UploadAnswers => upc'[u] = upc[u]
         ]_vars

\* The request of merge m lacks total_chunks: the field of the parsed body is 0.
NoTotalChunks(m) == mpc[m] \notin {"idle", "badRequest"} /\ mN[m] < 1

(***************************************************************************)
(* C14: a merge whose request has no total_chunks (so that it is not >= 1)  *)
(* is refused: it never creates or truncates an output artifact, never      *)
(* lists or sweeps ./temp and never answers 200; its only answer is a       *)
(* failure, and none of its steps changes ./uploads or ./temp.  (Even a     *)
(* failure of os.Create is let pass as the refusal here, though it is not   *)
(* answered as an invalid request.)                                         *)
(***************************************************************************)
C14_MissingFieldRejected ==
    /\ [](\A m \in Mergers : NoTotalChunks(m) => mpc[m] \in {"create", "createFailed"})
    /\ [][\A m \in Mergers :
            (NoTotalChunks(m) /\ mpc'[m] # mpc[m])
                => (/\ mpc'[m] \in {"badRequest", "createFailed"}
                    /\ UNCHANGED <<fsVars, files, listed>>)]_vars

\* blk is a run of consecutive bytes of out.
Contains(out, blk) ==
    \E o \in 0..Len(out) - Len(blk) : SubSeq(out, o + 1, o + Len(blk)) = blk

\* The goroutine of chunk i of merge m returns in this step, as how.
Returns(m, i, how) == tpc[m][i] # how /\ tpc'[m][i] = how

(***************************************************************************)
(* C15: until the sweep starts, every chunk that was stored when the merge  *)
(* started is still in ./temp with its bytes or is, whole, in the output    *)
(* artifact; a chunk artifact leaves ./temp only in the step in which its   *)
(* goroutine returns after having written all it read; and a goroutine that *)
(* returns because its chunk is missing or cannot be opened, read or        *)
(* written removes nothing.                                                *)
(***************************************************************************)
C15_DeleteAfterWrite ==
    /\ [](\A m \in Mergers :
            mpc[m] = "spawn"
                => \A u \in Uploaders \cap before[m] :
                       upc[u] = "ok" => (ArtifactHolds(u) \/ Contains(Output(m), uData[u])))
    /\ [][\A m \in Mergers :
            /\ mpc[m] = "spawn"
                => \A p \in DOMAIN tempFiles \ DOMAIN tempFiles' :
                       /\ p[1] = mFile[m]
                       /\ Returns(m, p[2], "merged")
                       /\ tW[m][p[2]] = Len(ino[tempFiles[p]])
            /\ \A i \in Tasks :
                   (\E how \in {"missing", "openFail", "readFail", "writeFail"} : Returns(m, i, how))
                       => UNCHANGED <<tempFiles, ino>>
         ]_vars

\* Before the sweep: one chunk of full length is merged and removed, the goroutine
\* of another failed in the middle of its write and its artifact is still there.
C15_Witness ==
    /\ mpc["m1"] = "spawn"
    /\ \E i, j \in Tasks :
        /\ tpc["m1"][i] = "merged" /\ Len(tData["m1"][i]) = MaxLen
        /\ ChunkPath(mFile["m1"], i) \notin DOMAIN tempFiles
        /\ tpc["m1"][j] = "writeFail" /\ tW["m1"][j] = 1
        /\ ChunkPath(mFile["m1"], j) \in DOMAIN tempFiles

\* Merge m started after merge n had answered 200 for the same file.
Repeats(m, n) ==
    /\ mpc[m] \notin {"idle", "badRequest"}
    /\ n \in before[m] /\ mpc[n] = "ok" /\ mFile[n] = mFile[m]

(***************************************************************************)
(* C16: with no upload in between, a merge that repeats a successful merge  *)
(* of the same file finds no chunk (the first one removed them all): from   *)
(* os.Create on, the output artifact is empty, whatever the first merge     *)
(* wrote to it; none of its goroutines reads or writes a byte, its sweep    *)
(* does not fail, and when it answers, having created the output, it        *)
(* answers 200.                                                            *)
(***************************************************************************)
C16_RepeatedMergeIsEmpty ==
    \A m, n \in Mergers :
        Repeats(m, n)
            => /\ HasOutput(m) => Output(m) = << >>
               /\ \A i \in Tasks : tpc[m][i] \in {"none", "open", "missing", "openFail"}
               /\ mpc[m] # "sweepFailed"
               /\ mpc[m] \in {"clean", "ok"} => listed[m] = {}

\* The first merge wrote a chunk of full length and answered 200; the second, of
\* the same file with the same total_chunks, has answered 200 as well.
C16_Witness ==
    /\ Repeats("m2", "m1")
    /\ mpc["m2"] = "ok"
    /\ mN["m2"] = mN["m1"]
    /\ tpc["m1"][0] = "merged" /\ tW["m1"][0] = MaxLen
    /\ Output("m2") = << >>

\* ./temp holds exactly the artifacts of the uploads that answered 200, each with
\* the bytes of its upload.
TempAsStored ==
    /\ DOMAIN tempFiles = {ChunkPath(uFile[u], uIdx[u]) : u \in {v \in Uploaders : upc[v] = "ok"}}
    /\ \A u \in Uploaders : upc[u] = "ok" => ArtifactHolds(u)

(***************************************************************************)
(* C17: when os.Create of the output fails the merge answers at once, in a  *)
(* step that changes no file; the only steps after the request is read are  *)
(* that one and the successful os.Create; and a merge that failed so has    *)
(* started no goroutine, has listed and removed nothing, and ./temp holds   *)
(* the same artifacts with the same bytes as before the call, for good.     *)
(***************************************************************************)
C17_CreateFailureChangesNothing ==
    /\ [][\A m \in Mergers :
            /\ (mpc[m] = "create" /\ mpc'[m] # mpc[m])
                   => /\ mpc'[m] \in {"spawn", "createFailed"}
                      /\ mpc'[m] = "createFailed"
                             => UNCHANGED <<fsVars, tkVars, wg, mutx, files, listed>>
            /\ mpc[m] = "createFailed" => UNCHANGED <<mpc, fsVars, tkVars, files, listed>>
         ]_vars
    /\ [](\A m \in Mergers :
            mpc[m] = "createFailed"
                => /\ \A i \in Tasks : tpc[m][i] = "none"
                   /\ wg[m] = 0 /\ mI[m] = 0
                   /\ files[m] = {} /\ listed[m] = {}
                   /\ TempAsStored)

\* The merge failed at os.Create with two chunks stored, one of them of its file.
C17_Witness ==
    /\ mpc["m1"] = "createFailed"
    /\ mN["m1"] = MaxChunks
    /\ Cardinality(DOMAIN tempFiles) = 2
    /\ \E p \in DOMAIN tempFiles : p[1] = mFile["m1"] /\ Len(ino[tempFiles[p]]) = MaxLen

\* Merge m has read its request and not answered.
Running(m) == mpc[m] \in {"create", "spawn", "sweep", "clean"}

(***************************************************************************)
(* C18: every merge that has read its request answers (200 or 500) under    *)
(* fair scheduling, after all its goroutines have returned; a goroutine     *)
(* that leaves its write step, by a failed write as well as by a complete   *)
(* one, leaves the mutex free; a goroutine that is not waiting for the      *)
(* mutex can always step, and one that waits can step when the mutex is     *)
(* free; and a merge that has not answered can always step: there is no     *)
(* deadlock.                                                               *)
(***************************************************************************)
C18_MergeTerminates ==
    /\ [][\A m \in Mergers, i \in Tasks :
            (tpc[m][i] = "write" /\ tpc'[m][i] # "write")
                => (tpc'[m][i] \in {"writeFail", "merged"} /\ mutx'[m] = -1)]_vars
    /\ [](\A m \in Mergers :
            /\ \A i \in Tasks :
                /\ tpc[m][i] \in {"open", "read", "write"} => ENABLED Task(m, i)
                /\ (tpc[m][i] = "lock" /\ mutx[m] = -1) => ENABLED Task(m, i)
                /\ (tpc[m][i] = "lock" /\ mutx[m] # -1) => ENABLED Task(m, mutx[m])
            /\ Running(m) => ENABLED MergeChunks(m))
    /\ \A m \in Mergers :
        /\ (mpc[m] = "spawn") ~> (mpc[m] = "sweep" /\ AllReturned(m))
        /\ Running(m) ~> (mpc[m] \in {"ok", "createFailed", "sweepFailed"})

\* A merge of MaxChunks chunks ended FAILED in its sweep, after a goroutine had
\* failed in its write, another had merged its whole chunk and a third could not
\* open its chunk.
C18_Witness ==
    /\ mpc["m1"] = "sweepFailed"
    /\ mN["m1"] = MaxChunks
    /\ \E i, j, k \in Tasks :
        /\ tpc["m1"][i] = "writeFail"
        /\ tpc["m1"][j] = "merged" /\ tW["m1"][j] = MaxLen
        /\ tpc["m1"][k] = "openFail"

====
